---- MODULE Spec2Model ----
(***************************************************************************)
(* A model of the mini_blockchain node: Transaction, Block, MemPool and    *)
(* Blockchain of src/src/block.rs, the Node of src/src/network.rs and the  *)
(* driver of src/src/main.rs.                                              *)
(*                                                                         *)
(* Modelling conventions                                                   *)
(*  - f64 amounts are records [nan, v]: v an integer, nan the IEEE NaN.    *)
(*    Every ordered comparison with NaN is false, as in Rust.              *)
(*  - Strings produced by format! are sequences of string tokens.          *)
(*  - SHA-256 is collision free: a digest is the record [pre, d] of its    *)
(*    preimage and of a checksum d of the preimage; the hex rendering      *)
(*    starts with "00" iff d = 0 (one out of PowMod digests does).         *)
(***************************************************************************)
EXTENDS Integers, Sequences, FiniteSets, TLC

VARIABLES
    now,        \* SystemTime::now() in seconds since the epoch
    chain,      \* Blockchain.chain
    mempool,    \* Blockchain.mempool.transactions
    difficulty, \* Blockchain.difficulty
    last,       \* the last completed call: its name, argument, result,
                \* the Blockchain and peer list it was applied to, the
                \* frames it wrote, whether it repeats the call before it
                \* and the chain that one was applied to
    bcLock,     \* the threads inside Node.blockchain.lock()
    peersLock,  \* the threads inside Node.peers.lock()
    dpc,        \* where the driver thread (main) is
    dloc,       \* the locals of the call the driver is in
    hpc,        \* where each inbound handler thread (handle_client) is
    hmsg,       \* the message each handler thread read
    peers       \* Node.peers

threadVars == <<bcLock, peersLock, dpc, dloc, hpc, hmsg>>
vars == <<now, chain, mempool, difficulty, last, threadVars, peers>>

----------------------------------------------------------------------------
(* Bounds of the model *)

MaxTime == 1     \* the clock runs from 0 to MaxTime
PowMod == 2      \* one digest out of PowMod starts with "00"
ApiMaxTx == 11   \* transactions accepted in a run of the Blockchain API
ApiMaxChain == 2 \* chain length in a run of the Blockchain API
NumHandlers == 2 \* inbound connections handled at a time

(* Program constants *)

INIT_DIFFICULTY == 2 \* Blockchain::new
MINE_COUNT == 10 \* self.mempool.get_transactions(10)

----------------------------------------------------------------------------
(* f64 *)

F64(v) == [nan |-> FALSE, v |-> v]
NaN == [nan |-> TRUE, v |-> 0]

\* a <= b on f64
F64Le(a, b) == ~a.nan /\ ~b.nan /\ a.v <= b.v
\* a > b on f64
F64Gt(a, b) == ~a.nan /\ ~b.nan /\ a.v > b.v
\* format!("{}", a)
F64Display(a) == IF a.nan THEN "NaN" ELSE ToString(a.v)

F64Exact == 16   \* up to here every whole number is an f64 (2^53)
F64Max == 40     \* the largest finite f64 of the model (f64::MAX)

\* the f64 nearest to x: beyond F64Exact only every second number is one,
\* and a number half way between two goes to the one with the even mantissa
F64Round(x) ==
    IF x <= F64Exact /\ x >= 0 - F64Exact THEN x
    ELSE IF x % 2 = 0 THEN x
    ELSE IF (x + 1) % 4 = 0 THEN x + 1
    ELSE x - 1

\* f64::INFINITY and f64::NEG_INFINITY: what a sum beyond f64::MAX becomes
F64Inf == F64(F64Max + 1)
F64NegInf == F64(0 - (F64Max + 1))

\* a + b on f64
F64Add(a, b) ==
    IF a.nan \/ b.nan THEN NaN
    ELSE IF (a = F64Inf /\ b = F64NegInf) \/ (a = F64NegInf /\ b = F64Inf) THEN NaN
    ELSE IF a = F64Inf \/ b = F64Inf THEN F64Inf
    ELSE IF a = F64NegInf \/ b = F64NegInf THEN F64NegInf
    ELSE IF F64Round(a.v + b.v) > F64Max THEN F64Inf
    ELSE IF F64Round(a.v + b.v) < 0 - F64Max THEN F64NegInf
    ELSE F64(F64Round(a.v + b.v))

\* -a on f64
F64Neg(a) == IF a.nan THEN NaN ELSE F64(0 - a.v)

\* a - b on f64
F64Sub(a, b) == F64Add(a, F64Neg(b))

----------------------------------------------------------------------------
(* Transaction *)

Transaction(from, to, amount, signature, public_key) ==
    [from |-> from, to |-> to, amount |-> amount, timestamp |-> 0,
     signature |-> signature, public_key |-> public_key]

Transaction_is_valid(tx) ==
    IF F64Le(tx.amount, F64(0)) THEN FALSE
    ELSE IF tx.from = "" \/ tx.to = "" THEN FALSE
    ELSE IF tx.from = tx.to THEN FALSE
    ELSE IF tx.signature = "" \/ tx.public_key = "" THEN FALSE
    ELSE TRUE

----------------------------------------------------------------------------
(* Block *)

\* "0".repeat(64)
ZeroHash == [pre |-> <<"0">>, d |-> 0]

\* format!("{}->{}:{}", tx.from, tx.to, tx.amount)
TxString(tx) == <<tx.from, "->", tx.to, ":", F64Display(tx.amount)>>

\* .collect::<Vec<String>>().join("|")
RECURSIVE JoinTx(_)
JoinTx(transactions) ==
    IF transactions = <<>> THEN <<>>
    ELSE IF Len(transactions) = 1 THEN TxString(transactions[1])
    ELSE TxString(transactions[1]) \o <<"|">> \o JoinTx(Tail(transactions))

\* the checksum of a transaction in the digest
TxSum(tx) ==
    (IF tx.amount.nan THEN 1
     ELSE IF tx.amount.v < 0 THEN 0 - tx.amount.v ELSE tx.amount.v)
    + (IF tx.from = "A" THEN 1 ELSE 0) + (IF tx.to = "A" THEN 2 ELSE 0)

RECURSIVE TxsSum(_)
TxsSum(transactions) ==
    IF transactions = <<>> THEN 0
    ELSE TxSum(transactions[1]) + TxsSum(Tail(transactions))

compute_hash(index, timestamp, transactions, prev_hash, nonce) ==
    [pre |-> <<ToString(index), "|", ToString(timestamp), "|",
               JoinTx(transactions), "|", prev_hash, "|", ToString(nonce)>>,
     d |-> (index + timestamp + Len(transactions) + TxsSum(transactions)
            + prev_hash.d + nonce) % PowMod]

\* hash.starts_with(&"0".repeat(difficulty as usize)), difficulty = 2
StartsWithZeros(hash) == hash.d = 0

\* the while loop of Block::new, entered with the given nonce
RECURSIVE ProofOfWork(_, _, _, _, _)
ProofOfWork(index, timestamp, transactions, prev_hash, nonce) ==
    IF StartsWithZeros(compute_hash(index, timestamp, transactions, prev_hash, nonce))
    THEN nonce
    ELSE ProofOfWork(index, timestamp, transactions, prev_hash, nonce + 1)

\* Block::new at time t
Block_new(index, transactions, prev_hash, t) ==
    LET nonce == ProofOfWork(index, t, transactions, prev_hash, 0)
    IN [index |-> index, timestamp |-> t, transactions |-> transactions,
        prev_hash |-> prev_hash,
        hash |-> compute_hash(index, t, transactions, prev_hash, nonce),
        nonce |-> nonce]

GenesisTx ==
    Transaction("GENESIS", "GENESIS", F64(0), "genesis_signature", "genesis_key")

\* Block::genesis at time t
genesis(t) == Block_new(0, <<GenesisTx>>, ZeroHash, t)

Block_is_valid_NoPow(b, prev) ==
    IF b.index # prev.index + 1 THEN FALSE
    ELSE IF b.prev_hash # prev.hash THEN FALSE
    ELSE IF \E i \in 1..Len(b.transactions) :
               ~Transaction_is_valid(b.transactions[i]) THEN FALSE
    ELSE IF b.hash # compute_hash(b.index, b.timestamp, b.transactions,
                                  b.prev_hash, b.nonce) THEN FALSE
    ELSE TRUE

Block_is_valid_NoIndexCheck(b, prev) ==
    IF b.prev_hash # prev.hash THEN FALSE
    ELSE IF \E i \in 1..Len(b.transactions) :
               ~Transaction_is_valid(b.transactions[i]) THEN FALSE
    ELSE IF b.hash # compute_hash(b.index, b.timestamp, b.transactions,
                                  b.prev_hash, b.nonce) THEN FALSE
    ELSE IF ~StartsWithZeros(b.hash) THEN FALSE
    ELSE TRUE

Block_is_valid(b, prev) ==
    IF b.index # prev.index + 1 THEN FALSE
    ELSE IF b.prev_hash # prev.hash THEN FALSE
    ELSE IF \E i \in 1..Len(b.transactions) :
               ~Transaction_is_valid(b.transactions[i]) THEN FALSE
    ELSE IF b.hash # compute_hash(b.index, b.timestamp, b.transactions,
                                  b.prev_hash, b.nonce) THEN FALSE
    ELSE IF ~StartsWithZeros(b.hash) THEN FALSE
    ELSE TRUE

----------------------------------------------------------------------------
(* MemPool *)

MemPool_add_transaction_NoCheck(pool, tx) ==
    [pool |-> Append(pool, tx), ret |-> TRUE]

\* MemPool::add_transaction: the pool afterwards and the value returned
MemPool_add_transaction(pool, tx) ==
    IF Transaction_is_valid(tx)
    THEN [pool |-> Append(pool, tx), ret |-> TRUE]
    ELSE [pool |-> pool, ret |-> FALSE]

\* the for loop of MemPool::get_transactions with count iterations left
RECURSIVE PopLoop(_, _, _)
PopLoop(pool, count, result) ==
    IF count = 0 THEN [pool |-> pool, result |-> result]
    ELSE IF pool = <<>> THEN PopLoop(pool, count - 1, result)
    ELSE PopLoop(SubSeq(pool, 1, Len(pool) - 1), count - 1,
                 Append(result, pool[Len(pool)]))

get_transactions_Fifo(pool, count) ==
    LET n == IF Len(pool) < count THEN Len(pool) ELSE count
    IN [pool |-> SubSeq(pool, n + 1, Len(pool)), result |-> SubSeq(pool, 1, n)]

\* MemPool::get_transactions: the pool afterwards and the vector returned
get_transactions(pool, count) == PopLoop(pool, count, <<>>)

----------------------------------------------------------------------------
(* Blockchain *)

\* Blockchain::new at time t
Blockchain_new(t) ==
    [chain |-> <<genesis(t)>>, difficulty |-> INIT_DIFFICULTY, mempool |-> <<>>]

mine_block_NoEmptyCheck(c, pool, t) ==
    LET prev_block == c[Len(c)]
        got == get_transactions(pool, MINE_COUNT)
        new_block == Block_new(Len(c), got.result, prev_block.hash, t)
    IN IF Block_is_valid(new_block, prev_block)
       THEN [chain |-> Append(c, new_block), mempool |-> got.pool, ret |-> TRUE]
       ELSE [chain |-> c, mempool |-> got.pool, ret |-> FALSE]

\* Blockchain::mine_block at time t: chain and mempool afterwards, value returned
mine_block(c, pool, t) ==
    LET new_index == Len(c)
        prev_block == c[Len(c)]
        prev_hash == prev_block.hash
        got == get_transactions(pool, MINE_COUNT)
        new_block == Block_new(new_index, got.result, prev_hash, t)
    IN IF got.result = <<>>
       THEN [chain |-> c, mempool |-> got.pool, ret |-> FALSE]
       ELSE IF Block_is_valid(new_block, prev_block)
            THEN [chain |-> Append(c, new_block), mempool |-> got.pool, ret |-> TRUE]
            ELSE [chain |-> c, mempool |-> got.pool, ret |-> FALSE]

\* Blockchain::is_chain_valid
is_chain_valid(c) ==
    \A i \in 2..Len(c) : Block_is_valid(c[i], c[i - 1])

----------------------------------------------------------------------------
(* Inputs *)

TxAB == Transaction("A", "B", F64(10), "sig", "key")
TxBC == Transaction("B", "C", F64(5), "sig", "key")
TxZero == Transaction("A", "B", F64(0), "sig", "key")

\* the record of a completed call
Call(op, arg, ret) ==
    [op |-> op, arg |-> arg, ret |-> ret,
     again |-> (op = "SYNC_RESPONSE" /\ last.op = op /\ last.arg = arg),
     chain0 |-> IF op = "SYNC_RESPONSE" /\ last.op = op THEN last.chain ELSE <<>>,
     chain |-> chain, mempool |-> mempool, difficulty |-> difficulty,
     peers |-> peers, written |-> <<>>]

NoCall == [op |-> "none", arg |-> <<>>, ret |-> FALSE, again |-> FALSE,
           chain0 |-> <<>>, chain |-> <<>>, mempool |-> <<>>, difficulty |-> 0,
           peers |-> <<>>, written |-> <<>>]

\* a completed call that wrote frames: each names the connection it went to
\* (the address connected to, or "reply" for the inbound connection)
Wrote(call, frames) == [call EXCEPT !.written = frames]

\* transactions held by the blocks after genesis
RECURSIVE ChainTxCount(_)
ChainTxCount(c) ==
    IF Len(c) <= 1 THEN 0
    ELSE Len(c[Len(c)].transactions) + ChainTxCount(SubSeq(c, 1, Len(c) - 1))

----------------------------------------------------------------------------
(* The Blockchain API, called from one thread: Blockchain::new,            *)
(* add_transaction and mine_block.                                         *)

ApiTxs == {TxAB, TxBC, TxZero}

\* thread 0 is the driver, threads 1..NumHandlers handle inbound connections
Driver == 0
Handlers == 1..NumHandlers
NoLocals == [op |-> "none"]
NoMessage == [type |-> "none"]

\* Node::new at time 0, no call made and no connection accepted yet
InitApi ==
    /\ now = 0
    /\ chain = Blockchain_new(0).chain
    /\ mempool = Blockchain_new(0).mempool
    /\ difficulty = Blockchain_new(0).difficulty
    /\ last = NoCall
    /\ bcLock = {}
    /\ peersLock = {}
    /\ dpc = "idle"
    /\ dloc = NoLocals
    /\ hpc = [h \in Handlers |-> "idle"]
    /\ hmsg = [h \in Handlers |-> NoMessage]
    /\ peers = <<>>

\* Blockchain::add_transaction(tx)
ApiAddTransaction(tx) ==
    /\ ChainTxCount(chain) + Len(mempool) < ApiMaxTx
    /\ LET r == MemPool_add_transaction(mempool, tx)
       IN /\ mempool' = r.pool
          /\ last' = Call("add_transaction", tx, r.ret)
    /\ UNCHANGED <<now, chain, difficulty, threadVars, peers>>

\* Blockchain::mine_block()
ApiMineBlock ==
    /\ (Len(chain) < ApiMaxChain \/ mempool = <<>>)
    /\ LET r == mine_block(chain, mempool, now)
       IN /\ chain' = r.chain
          /\ mempool' = r.mempool
          /\ last' = Call("mine_block", <<>>, r.ret)
    /\ UNCHANGED <<now, difficulty, threadVars, peers>>

NextApi ==
    \/ \E tx \in ApiTxs : ApiAddTransaction(tx)
    \/ ApiMineBlock

SpecApi == InitApi /\ [][NextApi]_vars

----------------------------------------------------------------------------
(* Node: what arrives over the wire and how it is merged *)

\* a JSON value that serde_json::from_value::<Block> rejects
Garbage == [garbage |-> TRUE]

\* serde_json::from_value::<Block>(block_value.clone()) is Ok
ParsesAsBlock(v) == "index" \in DOMAIN v

\* the for loop of handle_sync_response from position idx (0-based) on
RECURSIVE SyncLoop_NoGenesisCheck(_, _, _)
SyncLoop_NoGenesisCheck(c, chain_data, idx) ==
    IF idx >= Len(chain_data) THEN c
    ELSE LET block == chain_data[idx + 1]
         IN IF ~ParsesAsBlock(block) THEN SyncLoop_NoGenesisCheck(c, chain_data, idx + 1)
            ELSE IF idx = 0 THEN SyncLoop_NoGenesisCheck(c, chain_data, idx + 1)
            ELSE IF Block_is_valid(block, c[Len(c)])
                 THEN SyncLoop_NoGenesisCheck(Append(c, block), chain_data, idx + 1)
                 ELSE SyncLoop_NoGenesisCheck(c, chain_data, idx + 1)

RECURSIVE SyncLoop_AgainstSender(_, _, _)
SyncLoop_AgainstSender(c, chain_data, idx) ==
    IF idx >= Len(chain_data) THEN c
    ELSE LET block == chain_data[idx + 1]
         IN IF ~ParsesAsBlock(block) THEN SyncLoop_AgainstSender(c, chain_data, idx + 1)
            ELSE IF idx = 0
                 THEN IF c[1].hash # block.hash THEN c
                      ELSE SyncLoop_AgainstSender(c, chain_data, idx + 1)
            ELSE IF /\ ParsesAsBlock(chain_data[idx])
                    /\ Block_is_valid(block, chain_data[idx])
                    /\ block.index = Len(c)
                 THEN SyncLoop_AgainstSender(Append(c, block), chain_data, idx + 1)
                 ELSE SyncLoop_AgainstSender(c, chain_data, idx + 1)

RECURSIVE SyncLoop_AdoptOnMismatch(_, _, _)
SyncLoop_AdoptOnMismatch(c, chain_data, idx) ==
    IF idx >= Len(chain_data) THEN c
    ELSE LET block == chain_data[idx + 1]
         IN IF ~ParsesAsBlock(block) THEN SyncLoop_AdoptOnMismatch(c, chain_data, idx + 1)
            ELSE IF idx = 0
                 THEN IF c[1].hash # block.hash THEN <<block>>
                      ELSE SyncLoop_AdoptOnMismatch(c, chain_data, idx + 1)
            ELSE IF Block_is_valid(block, c[Len(c)])
                 THEN SyncLoop_AdoptOnMismatch(Append(c, block), chain_data, idx + 1)
                 ELSE SyncLoop_AdoptOnMismatch(c, chain_data, idx + 1)

RECURSIVE SyncLoop_OneBlock(_, _, _)
SyncLoop_OneBlock(c, chain_data, idx) ==
    IF idx >= Len(chain_data) THEN c
    ELSE LET block == chain_data[idx + 1]
         IN IF ~ParsesAsBlock(block) THEN SyncLoop_OneBlock(c, chain_data, idx + 1)
            ELSE IF idx = 0
                 THEN IF c[1].hash # block.hash THEN c
                      ELSE SyncLoop_OneBlock(c, chain_data, idx + 1)
            ELSE IF Block_is_valid(block, c[Len(c)])
                 THEN Append(c, block)
                 ELSE SyncLoop_OneBlock(c, chain_data, idx + 1)

RECURSIVE SyncLoop_StopAtInvalid(_, _, _)
SyncLoop_StopAtInvalid(c, chain_data, idx) ==
    IF idx >= Len(chain_data) THEN c
    ELSE LET block == chain_data[idx + 1]
         IN IF ~ParsesAsBlock(block) THEN SyncLoop_StopAtInvalid(c, chain_data, idx + 1)
            ELSE IF idx = 0
                 THEN IF c[1].hash # block.hash THEN c
                      ELSE SyncLoop_StopAtInvalid(c, chain_data, idx + 1)
            ELSE IF Block_is_valid(block, c[Len(c)])
                 THEN SyncLoop_StopAtInvalid(Append(c, block), chain_data, idx + 1)
                 ELSE c

RECURSIVE SyncLoop(_, _, _)
SyncLoop(c, chain_data, idx) ==
    IF idx >= Len(chain_data) THEN c
    ELSE LET block == chain_data[idx + 1]
         IN IF ~ParsesAsBlock(block) THEN SyncLoop(c, chain_data, idx + 1)
            ELSE IF idx = 0
                 THEN IF c[1].hash # block.hash THEN c
                      ELSE SyncLoop(c, chain_data, idx + 1)
            ELSE IF Block_is_valid(block, c[Len(c)])
                 THEN SyncLoop(Append(c, block), chain_data, idx + 1)
                 ELSE SyncLoop(c, chain_data, idx + 1)

\* Node::handle_sync_response: the chain afterwards
handle_sync_response(c, data) ==
    IF "chain" \in DOMAIN data THEN SyncLoop(c, data.chain, 0) ELSE c

handle_new_block_NoCheck(c, data) ==
    IF "block" \in DOMAIN data /\ ParsesAsBlock(data.block)
    THEN Append(c, data.block)
    ELSE c

\* handle_client, Some("NEW_BLOCK"): the chain afterwards
handle_new_block(c, data) ==
    IF "block" \in DOMAIN data /\ ParsesAsBlock(data.block)
    THEN IF Len(c) > 0 /\ Block_is_valid(data.block, c[Len(c)])
         THEN Append(c, data.block)
         ELSE c
    ELSE c

----------------------------------------------------------------------------
(* Node: frames, inbound dispatch, connect_to_peer and broadcast.          *)
(* A frame is what one stream.read returns: a JSON object (a record), text *)
(* that is no JSON, or no bytes at all.                                    *)

\* stream.read gave Ok(0) or Err(_): nothing to parse
NoBytes == [read |-> "none"]
\* bytes that serde_json::from_str::<Value> rejects
NotJson == [read |-> "not json"]

\* stream.read gave Ok(n) with n > 0
ReadOk(frame) == frame # NoBytes
\* serde_json::from_str::<Value>(&message) is Ok
IsJson(frame) == "read" \notin DOMAIN frame

\* data.get("type").and_then(|v| v.as_str())
msg_type(data) == IF "type" \in DOMAIN data THEN data.type ELSE "None"

\* serde_json::from_value::<Transaction>(tx_data.clone()) is Ok
ParsesAsTransaction(v) == "amount" \in DOMAIN v

sync_response_TailOnly(c) ==
    [type |-> "SYNC_RESPONSE", chain |-> <<c[Len(c)]>>]

\* json!({"type": "SYNC_RESPONSE", "chain": bc.chain}); the amounts a node
\* holds in its chain are finite, so every block is rendered in full
sync_response(c) == [type |-> "SYNC_RESPONSE", chain |-> c]

handle_client_AnswerUnknown(c, pool, frame) ==
    IF ~ReadOk(frame) \/ ~IsJson(frame)
    THEN [chain |-> c, mempool |-> pool, written |-> <<>>]
    ELSE CASE msg_type(frame) = "NEW_BLOCK" ->
                [chain |-> handle_new_block(c, frame), mempool |-> pool,
                 written |-> <<>>]
           [] msg_type(frame) = "NEW_TRANSACTION" ->
                IF /\ "transaction" \in DOMAIN frame
                   /\ ParsesAsTransaction(frame.transaction)
                THEN [chain |-> c,
                      mempool |-> MemPool_add_transaction(pool, frame.transaction).pool,
                      written |-> <<>>]
                ELSE [chain |-> c, mempool |-> pool, written |-> <<>>]
           [] OTHER ->
                [chain |-> c, mempool |-> pool,
                 written |-> <<[to |-> "reply", msg |-> sync_response(c)]>>]

\* handle_client: the Blockchain afterwards and the frames written back
handle_client(c, pool, frame) ==
    IF ~ReadOk(frame) \/ ~IsJson(frame)
    THEN [chain |-> c, mempool |-> pool, written |-> <<>>]
    ELSE CASE msg_type(frame) = "SYNC_REQUEST" ->
                [chain |-> c, mempool |-> pool,
                 written |-> <<[to |-> "reply", msg |-> sync_response(c)]>>]
           [] msg_type(frame) = "NEW_BLOCK" ->
                [chain |-> handle_new_block(c, frame), mempool |-> pool,
                 written |-> <<>>]
           [] msg_type(frame) = "NEW_TRANSACTION" ->
                IF /\ "transaction" \in DOMAIN frame
                   /\ ParsesAsTransaction(frame.transaction)
                THEN [chain |-> c,
                      mempool |-> MemPool_add_transaction(pool, frame.transaction).pool,
                      written |-> <<>>]
                ELSE [chain |-> c, mempool |-> pool, written |-> <<>>]
           [] OTHER -> [chain |-> c, mempool |-> pool, written |-> <<>>]

\* what the network does to one call of connect_to_peer: whether
\* TcpStream::connect and stream.write_all succeed and the frame read back
Outcome(connect, write, reply) ==
    [connect |-> connect, write |-> write, reply |-> reply]

\* json!({"type": "SYNC_REQUEST", "from": self.id})
sync_request == [type |-> "SYNC_REQUEST", from |-> "node"]

connect_to_peer_RegisterOnSuccess(c, ps, peer_addr, net) ==
    IF ~net.connect
    THEN [chain |-> c, peers |-> ps, ret |-> FALSE, written |-> <<>>]
    ELSE IF ~net.write
    THEN [chain |-> c, peers |-> ps, ret |-> FALSE, written |-> <<>>]
    ELSE IF ReadOk(net.reply) /\ IsJson(net.reply)
    THEN [chain |-> handle_sync_response(c, net.reply),
          peers |-> Append(ps, peer_addr), ret |-> TRUE,
          written |-> <<[to |-> peer_addr, msg |-> sync_request]>>]
    ELSE [chain |-> c, peers |-> ps, ret |-> FALSE,
          written |-> <<[to |-> peer_addr, msg |-> sync_request]>>]

\* Node::connect_to_peer: the chain and the peer list afterwards, the value
\* returned and the frames written
connect_to_peer(c, ps, peer_addr, net) ==
    IF ~net.connect
    THEN [chain |-> c, peers |-> ps, ret |-> FALSE, written |-> <<>>]
    ELSE IF ~net.write
    THEN [chain |-> c, peers |-> Append(ps, peer_addr), ret |-> FALSE,
          written |-> <<>>]
    ELSE IF ReadOk(net.reply) /\ IsJson(net.reply)
    THEN [chain |-> handle_sync_response(c, net.reply),
          peers |-> Append(ps, peer_addr), ret |-> TRUE,
          written |-> <<[to |-> peer_addr, msg |-> sync_request]>>]
    ELSE [chain |-> c, peers |-> Append(ps, peer_addr), ret |-> FALSE,
          written |-> <<[to |-> peer_addr, msg |-> sync_request]>>]

\* the for loop of broadcast_to_peers over the entries i.. of the cloned
\* list: the addresses connected to and the frames written; up holds the
\* entries whose TcpStream::connect succeeds
RECURSIVE BroadcastLoop(_, _, _, _)
BroadcastLoop(ps, message, up, i) ==
    IF i > Len(ps) THEN [connects |-> <<>>, written |-> <<>>]
    ELSE LET rest == BroadcastLoop(ps, message, up, i + 1)
         IN [connects |-> <<ps[i]>> \o rest.connects,
             written |-> IF i \in up
                         THEN <<[to |-> ps[i], msg |-> message]>> \o rest.written
                         ELSE rest.written]

\* Node::broadcast_to_peers
broadcast_to_peers(ps, message, up) ==
    IF ps = <<>> THEN [connects |-> <<>>, written |-> <<>>]
    ELSE BroadcastLoop(ps, message, up, 1)

\* Node::broadcast_block
broadcast_block(ps, block, up) ==
    broadcast_to_peers(ps, [type |-> "NEW_BLOCK", block |-> block], up)

\* Node::broadcast_transaction
broadcast_transaction(ps, tx, up) ==
    broadcast_to_peers(ps, [type |-> "NEW_TRANSACTION", transaction |-> tx], up)

----------------------------------------------------------------------------
(* The MemPool API, called from one thread: MemPool::new, add_transaction, *)
(* get_transactions and clear.                                             *)

PoolMaxLen == 3   \* transactions in the pool

TxAB2 == Transaction("A", "B", F64(10), "sig2", "key2")
TxNaN == Transaction("A", "B", NaN, "sig", "key")
TxNeg == Transaction("A", "B", F64(-1), "sig", "key")
TxNoFrom == Transaction("", "B", F64(10), "sig", "key")
TxNoTo == Transaction("A", "", F64(10), "sig", "key")
TxSelf == Transaction("A", "A", F64(10), "sig", "key")
TxNoSig == Transaction("A", "B", F64(10), "", "key")
TxNoKey == Transaction("A", "B", F64(10), "sig", "")

PoolTxs == {TxAB, TxBC, TxNaN, TxZero, TxNeg, TxNoFrom, TxNoTo, TxSelf,
            TxNoSig, TxNoKey}

\* mempool.add_transaction(tx)
PoolAddTransaction(tx) ==
    /\ Len(mempool) < PoolMaxLen
    /\ LET r == MemPool_add_transaction(mempool, tx)
       IN /\ mempool' = r.pool
          /\ last' = Call("add_transaction", tx, r.ret)
    /\ UNCHANGED <<now, chain, difficulty, threadVars, peers>>

\* mempool.get_transactions(count)
PoolGetTransactions(count) ==
    /\ LET r == get_transactions(mempool, count)
       IN /\ mempool' = r.pool
          /\ last' = Call("get_transactions", count, r.result)
    /\ UNCHANGED <<now, chain, difficulty, threadVars, peers>>

\* mempool.clear()
PoolClear ==
    /\ mempool' = <<>>
    /\ last' = Call("clear", <<>>, TRUE)
    /\ UNCHANGED <<now, chain, difficulty, threadVars, peers>>

NextPool ==
    \/ \E tx \in PoolTxs : PoolAddTransaction(tx)
    \/ \E count \in 0..PoolMaxLen : PoolGetTransactions(count)
    \/ PoolClear

SpecPool == InitApi /\ [][NextPool]_vars

----------------------------------------------------------------------------
(* Inputs of a node: transactions submitted, blocks and chains sent by peers *)

NodeMaxChain == 3  \* blocks in the chain of the node
NodeMaxPool == 1   \* transactions in the mempool of the node

NodeTxs == {TxAB, TxZero}

\* the chain of a peer after it mined transactions at time t
Extend(c, transactions, t) ==
    Append(c, Block_new(Len(c), transactions, c[Len(c)].hash, t))

PeerTxLists == {<<TxAB>>, <<TxBC>>}

\* the chains a peer started at time t0 can hold
PeerChains(t0) ==
    LET g == <<genesis(t0)>>
        one == {Extend(g, l, t0) : l \in PeerTxLists}
        two == UNION {{Extend(c, l, t0) : l \in PeerTxLists} : c \in one}
    IN {g} \cup one \cup two

\* the chains of the peers started with the node, and of one started later
SameGenesisChains == PeerChains(0)
OtherGenesisChain == Extend(<<genesis(1)>>, <<TxAB>>, 1)

\* a block mined on the tail of c, and the ways to get one check of
\* Block::is_valid wrong
Good(c, t) == Block_new(Len(c), <<TxAB>>, c[Len(c)].hash, t)
Forged(c, t) ==
    LET good == Good(c, t)
        n == good.nonce + 1
    IN {good,
        Block_new(Len(c), <<TxAB2>>, c[Len(c)].hash, t),
        Block_new(Len(c) + 1, <<TxAB>>, c[Len(c)].hash, t),
        Block_new(Len(c), <<TxAB>>, ZeroHash, t),
        Block_new(Len(c), <<TxZero>>, c[Len(c)].hash, t),
        Block_new(Len(c), <<TxAB, TxNoSig>>, c[Len(c)].hash, t),
        [good EXCEPT !.nonce = @ + PowMod],
        [good EXCEPT !.nonce = n,
                     !.hash = compute_hash(good.index, good.timestamp,
                                           good.transactions, good.prev_hash, n)]}

\* blocks a NEW_BLOCK message can carry
NewBlockInputs == Forged(chain, now) \cup {Garbage}

\* arrays a reply to SYNC_REQUEST can carry in "chain": snapshots of the
\* chains of peers, sequences put together by a peer, the reply before again
SyncInputs ==
    LET g == chain[1]
        f1 == Good(chain, now)
        f2 == Block_new(Len(chain) + 1, <<TxBC>>, f1.hash, now)
        bad == Block_new(Len(chain), <<TxZero>>, chain[Len(chain)].hash, now)
    IN SameGenesisChains
       \cup {OtherGenesisChain, chain, <<g, f1, f2>>, <<g, f2, f1>>, <<g, bad, f1>>,
             <<genesis(1), f1>>, <<Garbage, f1>>, <<g, Garbage, f1>>, <<>>}
       \cup (IF last.op = "SYNC_RESPONSE" THEN {last.arg.chain} ELSE {})

----------------------------------------------------------------------------
(* A node whose operations run one at a time: local calls, inbound         *)
(* messages and sync replies, each under the blockchain guard.             *)

InitNode == InitApi

\* bc.add_transaction(tx) under the guard
NodeAddTransaction(tx) ==
    /\ Len(mempool) < NodeMaxPool
    /\ LET r == MemPool_add_transaction(mempool, tx)
       IN /\ mempool' = r.pool
          /\ last' = Call("add_transaction", tx, r.ret)
    /\ UNCHANGED <<now, chain, difficulty, threadVars, peers>>

\* bc.mine_block() under the guard
NodeMineBlock ==
    /\ (Len(chain) < NodeMaxChain \/ mempool = <<>>)
    /\ LET r == mine_block(chain, mempool, now)
       IN /\ chain' = r.chain
          /\ mempool' = r.mempool
          /\ last' = Call("mine_block", <<>>, r.ret)
    /\ UNCHANGED <<now, difficulty, threadVars, peers>>

\* handle_client on {"type": "NEW_BLOCK", "block": block}
NodeNewBlock(block) ==
    /\ Len(chain) < NodeMaxChain
    /\ LET data == [type |-> "NEW_BLOCK", block |-> block]
           c == handle_new_block(chain, data)
       IN /\ chain' = c
          /\ last' = Call("NEW_BLOCK", data, c # chain)
    /\ UNCHANGED <<now, mempool, difficulty, threadVars, peers>>

\* connect_to_peer receiving {"type": "SYNC_RESPONSE", "chain": chain_data}
NodeSync(chain_data) ==
    /\ LET data == [type |-> "SYNC_RESPONSE", chain |-> chain_data]
           c == handle_sync_response(chain, data)
       IN /\ Len(c) <= NodeMaxChain
          /\ chain' = c
          /\ last' = Call("SYNC_RESPONSE", data, TRUE)
    /\ UNCHANGED <<now, mempool, difficulty, threadVars, peers>>

NextNode ==
    \/ \E tx \in NodeTxs : NodeAddTransaction(tx)
    \/ NodeMineBlock
    \/ \E block \in NewBlockInputs : NodeNewBlock(block)
    \/ \E chain_data \in SyncInputs : NodeSync(chain_data)

SpecNode == InitNode /\ [][NextNode]_vars

----------------------------------------------------------------------------
(* The node with its threads: the driver calls add_transaction, mine_block *)
(* and connect_to_peer, each inbound connection is read by a thread of its *)
(* own, and whoever touches the Blockchain first takes Node.blockchain's   *)
(* Mutex.                                                                  *)

LockFree_Always(lock) == TRUE

\* Mutex::lock returns once no thread holds the guard
LockFree(lock) == lock = {}

\* calls under way that can still add to the mempool or to the chain
PendingTx ==
    Cardinality({h \in Handlers : hpc[h] # "idle" /\ hmsg[h].type = "NEW_TRANSACTION"})
    + (IF dpc # "idle" /\ dloc.op = "add_transaction" THEN 1 ELSE 0)

CanAppend(c, chain_data) ==
    Cardinality({i \in 1..Len(chain_data) :
                    ParsesAsBlock(chain_data[i]) /\ chain_data[i].index >= Len(c)})

PendingBlocks ==
    Cardinality({h \in Handlers : hpc[h] # "idle" /\ hmsg[h].type = "NEW_BLOCK"})
    + (IF dpc # "idle" /\ dloc.op = "mine_block" THEN 1 ELSE 0)
    + (IF dpc # "idle" /\ dloc.op = "connect_to_peer"
       THEN CanAppend(chain, dloc.arg.chain) ELSE 0)

\* what the driver submits and what the peers send while the threads run
ThreadTxs == {TxAB, TxZero}
ThreadBlockInputs ==
    {Good(chain, now), Block_new(Len(chain), <<TxZero>>, chain[Len(chain)].hash, now),
     Garbage}
ThreadSyncInputs ==
    LET g == chain[1]
        f1 == Good(chain, now)
        f2 == Block_new(Len(chain) + 1, <<TxBC>>, f1.hash, now)
    IN {<<g, f1, f2>>, <<g, f2, f1>>, <<genesis(1), f1>>}

Init == InitApi

Tick ==
    /\ now < MaxTime
    /\ now' = now + 1
    /\ UNCHANGED <<chain, mempool, difficulty, last, threadVars, peers>>

\* main: "tx", the transaction built
DriverCallAddTransaction(tx) ==
    /\ dpc = "idle"
    /\ Len(mempool) + PendingTx < NodeMaxPool
    /\ dpc' = "lock"
    /\ dloc' = [op |-> "add_transaction", arg |-> tx]
    /\ UNCHANGED <<now, chain, mempool, difficulty, last, bcLock, hpc, hmsg, peers, peersLock>>

\* main: "mine"
DriverCallMineBlock ==
    /\ dpc = "idle"
    /\ Len(chain) + PendingBlocks < NodeMaxChain
    /\ dpc' = "lock"
    /\ dloc' = [op |-> "mine_block", arg |-> <<>>]
    /\ UNCHANGED <<now, chain, mempool, difficulty, last, bcLock, hpc, hmsg, peers, peersLock>>

\* Node::connect_to_peer up to the reply read from the peer
DriverCallConnectToPeer(chain_data) ==
    /\ dpc = "idle"
    /\ Len(chain) + PendingBlocks + CanAppend(chain, chain_data) <= NodeMaxChain
    /\ dpc' = "lock"
    /\ dloc' = [op |-> "connect_to_peer",
                arg |-> [type |-> "SYNC_RESPONSE", chain |-> chain_data]]
    /\ UNCHANGED <<now, chain, mempool, difficulty, last, bcLock, hpc, hmsg, peers, peersLock>>

\* node.blockchain.lock().unwrap() in main and in handle_sync_response
DriverLock ==
    /\ dpc = "lock"
    /\ LockFree(bcLock)
    /\ bcLock' = bcLock \cup {Driver}
    /\ dpc' = dloc.op
    /\ UNCHANGED <<now, chain, mempool, difficulty, last, dloc, hpc, hmsg, peers, peersLock>>

\* bc.add_transaction(tx.clone()), then the guard is dropped
DriverAddTransaction ==
    /\ dpc = "add_transaction"
    /\ LET r == MemPool_add_transaction(mempool, dloc.arg)
       IN /\ mempool' = r.pool
          /\ last' = Call("add_transaction", dloc.arg, r.ret)
    /\ bcLock' = bcLock \ {Driver}
    /\ dpc' = "idle"
    /\ dloc' = NoLocals
    /\ UNCHANGED <<now, chain, difficulty, hpc, hmsg, peers, peersLock>>

\* mine_block up to the call of Block::new: tail read, mempool drained
DriverMineTake ==
    /\ dpc = "mine_block"
    /\ LET got == get_transactions(mempool, MINE_COUNT)
       IN /\ mempool' = got.pool
          /\ IF got.result = <<>>
             THEN /\ last' = Call("mine_block", <<>>, FALSE)
                  /\ bcLock' = bcLock \ {Driver}
                  /\ dpc' = "idle"
                  /\ dloc' = NoLocals
             ELSE /\ dloc' = [op |-> "mine_block", arg |-> <<>>,
                              new_index |-> Len(chain),
                              prev_block |-> chain[Len(chain)],
                              transactions |-> got.result,
                              timestamp |-> now, nonce |-> 0,
                              pool0 |-> mempool]
                  /\ dpc' = "proof_of_work"
                  /\ UNCHANGED <<last, bcLock>>
    /\ UNCHANGED <<now, chain, difficulty, hpc, hmsg, peers, peersLock>>

\* one turn of the while loop of Block::new
DriverProofOfWork ==
    /\ dpc = "proof_of_work"
    /\ IF StartsWithZeros(compute_hash(dloc.new_index, dloc.timestamp,
                                       dloc.transactions, dloc.prev_block.hash,
                                       dloc.nonce))
       THEN dpc' = "push" /\ dloc' = dloc
       ELSE dpc' = dpc /\ dloc' = [dloc EXCEPT !.nonce = @ + 1]
    /\ UNCHANGED <<now, chain, mempool, difficulty, last, bcLock, hpc, hmsg, peers, peersLock>>

\* mine_block from new_block.is_valid(prev_block) on, then the guard is dropped
DriverMinePush ==
    /\ dpc = "push"
    /\ LET new_block ==
               [index |-> dloc.new_index, timestamp |-> dloc.timestamp,
                transactions |-> dloc.transactions,
                prev_hash |-> dloc.prev_block.hash,
                hash |-> compute_hash(dloc.new_index, dloc.timestamp,
                                      dloc.transactions, dloc.prev_block.hash,
                                      dloc.nonce),
                nonce |-> dloc.nonce]
           ok == Block_is_valid(new_block, dloc.prev_block)
       IN /\ chain' = IF ok THEN Append(chain, new_block) ELSE chain
          /\ last' = [Call("mine_block", <<>>, ok) EXCEPT !.mempool = dloc.pool0]
    /\ bcLock' = bcLock \ {Driver}
    /\ dpc' = "idle"
    /\ dloc' = NoLocals
    /\ UNCHANGED <<now, mempool, difficulty, hpc, hmsg, peers, peersLock>>

\* handle_sync_response under the guard, then the guard is dropped
DriverSync ==
    /\ dpc = "connect_to_peer"
    /\ chain' = handle_sync_response(chain, dloc.arg)
    /\ last' = Call("SYNC_RESPONSE", dloc.arg, TRUE)
    /\ bcLock' = bcLock \ {Driver}
    /\ dpc' = "idle"
    /\ dloc' = NoLocals
    /\ UNCHANGED <<now, mempool, difficulty, hpc, hmsg, peers, peersLock>>

\* messages an inbound connection can carry
Messages ==
    {[type |-> "SYNC_REQUEST"]}
    \cup {[type |-> "NEW_BLOCK", block |-> b] : b \in ThreadBlockInputs}
    \cup {[type |-> "NEW_TRANSACTION", transaction |-> tx] : tx \in ThreadTxs}

\* handle_client up to the match on msg_type: the frame is read and parsed
HandlerRead(h, data) ==
    /\ hpc[h] = "idle"
    /\ data.type = "NEW_TRANSACTION" => Len(mempool) + PendingTx < NodeMaxPool
    /\ data.type = "NEW_BLOCK" => Len(chain) + PendingBlocks < NodeMaxChain
    /\ IF data.type = "NEW_BLOCK" /\ ~ParsesAsBlock(data.block)
       THEN /\ last' = Call("NEW_BLOCK", data, FALSE)
            /\ UNCHANGED <<hpc, hmsg>>
       ELSE /\ hpc' = [hpc EXCEPT ![h] = "lock"]
            /\ hmsg' = [hmsg EXCEPT ![h] = data]
            /\ UNCHANGED last
    /\ UNCHANGED <<now, chain, mempool, difficulty, bcLock, dpc, dloc, peers, peersLock>>

\* blockchain.lock().unwrap() in handle_client
HandlerLock(h) ==
    /\ hpc[h] = "lock"
    /\ LockFree(bcLock)
    /\ bcLock' = bcLock \cup {h}
    /\ hpc' = [hpc EXCEPT ![h] = hmsg[h].type]
    /\ UNCHANGED <<now, chain, mempool, difficulty, last, dpc, dloc, hmsg, peers, peersLock>>

\* Some("SYNC_REQUEST"): the chain is written back, then the guard is dropped
HandlerSyncRequest(h) ==
    /\ hpc[h] = "SYNC_REQUEST"
    /\ last' = Wrote(Call("SYNC_REQUEST", hmsg[h], TRUE),
                     <<[to |-> "reply", msg |-> sync_response(chain)]>>)
    /\ bcLock' = bcLock \ {h}
    /\ hpc' = [hpc EXCEPT ![h] = "idle"]
    /\ hmsg' = [hmsg EXCEPT ![h] = NoMessage]
    /\ UNCHANGED <<now, chain, mempool, difficulty, dpc, dloc, peers, peersLock>>

\* Some("NEW_BLOCK") under the guard, then the guard is dropped
HandlerNewBlock(h) ==
    /\ hpc[h] = "NEW_BLOCK"
    /\ LET c == handle_new_block(chain, hmsg[h])
       IN /\ chain' = c
          /\ last' = Call("NEW_BLOCK", hmsg[h], c # chain)
    /\ bcLock' = bcLock \ {h}
    /\ hpc' = [hpc EXCEPT ![h] = "idle"]
    /\ hmsg' = [hmsg EXCEPT ![h] = NoMessage]
    /\ UNCHANGED <<now, mempool, difficulty, dpc, dloc, peers, peersLock>>

\* Some("NEW_TRANSACTION") under the guard, then the guard is dropped
HandlerNewTransaction(h) ==
    /\ hpc[h] = "NEW_TRANSACTION"
    /\ LET r == MemPool_add_transaction(mempool, hmsg[h].transaction)
       IN /\ mempool' = r.pool
          /\ last' = Call("NEW_TRANSACTION", hmsg[h], r.ret)
    /\ bcLock' = bcLock \ {h}
    /\ hpc' = [hpc EXCEPT ![h] = "idle"]
    /\ hmsg' = [hmsg EXCEPT ![h] = NoMessage]
    /\ UNCHANGED <<now, chain, difficulty, dpc, dloc, peers, peersLock>>

Next ==
    \/ Tick
    \/ \E tx \in ThreadTxs : DriverCallAddTransaction(tx)
    \/ DriverCallMineBlock
    \/ \E chain_data \in ThreadSyncInputs : DriverCallConnectToPeer(chain_data)
    \/ DriverLock
    \/ DriverAddTransaction
    \/ DriverMineTake
    \/ DriverProofOfWork
    \/ DriverMinePush
    \/ DriverSync
    \/ \E h \in Handlers, data \in Messages : HandlerRead(h, data)
    \/ \E h \in Handlers : HandlerLock(h)
    \/ \E h \in Handlers : HandlerSyncRequest(h)
    \/ \E h \in Handlers : HandlerNewBlock(h)
    \/ \E h \in Handlers : HandlerNewTransaction(h)

Spec == Init /\ [][Next]_vars

----------------------------------------------------------------------------
(* The program of main.rs with its network: the start (a transaction is    *)
(* mined), the attempts to connect to the peer, the two broadcasts, then   *)
(* the commands; inbound connections are served all along, each in one     *)
(* step under the blockchain guard.                                        *)

CONNECT_ATTEMPTS == 5   \* for attempt in 1..=5

\* peer_addr of main
PeerAddr == "127.0.0.1:3001"

\* the transaction main builds at the start, and the one of the "tx" command
TxStart == Transaction("W1", "W2", F64(50), "sig", "key")
TxCommand == TxAB

\* frames a peer can send on an inbound connection
NetFrames ==
    LET good == Good(chain, now)
        bad == Block_new(Len(chain), <<TxZero>>, chain[Len(chain)].hash, now)
    IN {NoBytes, NotJson,
        [block |-> good, transaction |-> TxBC],
        [type |-> "PING", block |-> good, transaction |-> TxBC],
        [type |-> "SYNC_RESPONSE", chain |-> <<chain[1], good>>],
        [type |-> "SYNC_REQUEST", from |-> "peer"],
        [type |-> "NEW_BLOCK", block |-> good],
        [type |-> "NEW_BLOCK", block |-> bad],
        [type |-> "NEW_BLOCK", block |-> Garbage],
        [type |-> "NEW_BLOCK"],
        [type |-> "NEW_TRANSACTION", transaction |-> TxBC],
        [type |-> "NEW_TRANSACTION", transaction |-> TxZero],
        [type |-> "NEW_TRANSACTION", transaction |-> Garbage],
        [type |-> "NEW_TRANSACTION"]}

\* frames a peer can send back on the connection of connect_to_peer
NetReplies ==
    LET g == chain[1]
        f1 == Good(chain, now)
    IN {NoBytes, NotJson,
        sync_response(<<g, f1>>),
        sync_response(OtherGenesisChain),
        [type |-> "SYNC_RESPONSE"],
        [type |-> "NEW_BLOCK", chain |-> <<g, f1>>],
        [chain |-> <<g, f1>>]}

\* what the network can do to one call of connect_to_peer
NetOutcomes ==
    {Outcome(FALSE, FALSE, NoBytes), Outcome(TRUE, FALSE, NoBytes)}
    \cup {Outcome(TRUE, TRUE, reply) : reply \in NetReplies}

\* the blocks a frame or a reply can add to the chain
FrameBlocks(frame) ==
    IF ~IsJson(frame) THEN 0
    ELSE IF "chain" \in DOMAIN frame THEN CanAppend(chain, frame.chain)
    ELSE IF "block" \in DOMAIN frame THEN 1
    ELSE 0

InitNet ==
    /\ now = 0
    /\ chain = Blockchain_new(0).chain
    /\ mempool = Blockchain_new(0).mempool
    /\ difficulty = Blockchain_new(0).difficulty
    /\ last = NoCall
    /\ bcLock = {}
    /\ peersLock = {}
    /\ dpc = "start"
    /\ dloc = NoLocals
    /\ hpc = [h \in Handlers |-> "idle"]
    /\ hmsg = [h \in Handlers |-> NoMessage]
    /\ peers = <<>>

\* main: bc.add_transaction(tx.clone()); bc.mine_block() under the guard
MainStart ==
    /\ dpc = "start"
    /\ LET added == MemPool_add_transaction(mempool, TxStart)
           mined == mine_block(chain, added.pool, now)
       IN /\ chain' = mined.chain
          /\ mempool' = mined.mempool
          /\ last' = Call("start", TxStart, mined.ret)
    /\ dpc' = "connect"
    /\ dloc' = [op |-> "main", arg |-> <<>>, attempt |-> 1]
    /\ UNCHANGED <<now, difficulty, bcLock, hpc, hmsg, peers, peersLock>>

\* main: one turn of the loop around node.connect_to_peer(peer_addr)
MainConnect(net) ==
    /\ dpc = "connect"
    /\ Len(chain) + FrameBlocks(net.reply) <= NodeMaxChain
    /\ LET r == connect_to_peer(chain, peers, PeerAddr, net)
       IN /\ chain' = r.chain
          /\ peers' = r.peers
          /\ last' = Wrote(Call("connect_to_peer", net, r.ret), r.written)
          /\ IF r.ret \/ dloc.attempt = CONNECT_ATTEMPTS
             THEN dpc' = "broadcast_block" /\ dloc' = NoLocals
             ELSE dpc' = dpc /\ dloc' = [dloc EXCEPT !.attempt = @ + 1]
    /\ UNCHANGED <<now, mempool, difficulty, bcLock, peersLock, hpc, hmsg>>

\* main: node.broadcast_block(&last_block) for the last block of the chain
MainBroadcastBlock(up) ==
    /\ dpc = "broadcast_block"
    /\ LET b == broadcast_block(peers, chain[Len(chain)], up)
       IN last' = Wrote(Call("broadcast_block", chain[Len(chain)], b.connects),
                        b.written)
    /\ dpc' = "broadcast_transaction"
    /\ UNCHANGED <<now, chain, mempool, difficulty, bcLock, dloc, hpc, hmsg, peers, peersLock>>

\* main: node.broadcast_transaction(&tx)
MainBroadcastTransaction(up) ==
    /\ dpc = "broadcast_transaction"
    /\ LET b == broadcast_transaction(peers, TxStart, up)
       IN last' = Wrote(Call("broadcast_transaction", TxStart, b.connects),
                        b.written)
    /\ dpc' = "command"
    /\ UNCHANGED <<now, chain, mempool, difficulty, bcLock, dloc, hpc, hmsg, peers, peersLock>>

\* main, "mine": bc.mine_block() if the mempool holds a transaction
MainCommandMine ==
    /\ dpc = "command"
    /\ (Len(chain) < NodeMaxChain \/ mempool = <<>>)
    /\ IF Len(mempool) > 0
       THEN LET mined == mine_block(chain, mempool, now)
            IN /\ chain' = mined.chain
               /\ mempool' = mined.mempool
               /\ last' = Call("mine", <<>>, [ok |-> mined.ret, connects |-> <<>>])
       ELSE /\ last' = Call("mine", <<>>, [ok |-> FALSE, connects |-> <<>>])
            /\ UNCHANGED <<chain, mempool>>
    /\ UNCHANGED <<now, difficulty, threadVars, peers>>

\* main, "tx": bc.add_transaction(tx.clone()), then the broadcast if it was
\* accepted
MainCommandTx(up) ==
    /\ dpc = "command"
    /\ Len(mempool) < NodeMaxPool
    /\ LET added == MemPool_add_transaction(mempool, TxCommand)
           b == IF added.ret
                THEN broadcast_transaction(peers, TxCommand, up)
                ELSE [connects |-> <<>>, written |-> <<>>]
       IN /\ mempool' = added.pool
          /\ last' = Wrote(Call("tx", TxCommand,
                                 [ok |-> added.ret, connects |-> b.connects]),
                            b.written)
    /\ UNCHANGED <<now, chain, difficulty, threadVars, peers>>

\* handle_client on one inbound connection
NetHandleClient(frame) ==
    /\ Len(chain) + FrameBlocks(frame) <= NodeMaxChain
    /\ (IsJson(frame) /\ "transaction" \in DOMAIN frame) =>
            Len(mempool) < NodeMaxPool
    /\ LET r == handle_client(chain, mempool, frame)
       IN /\ chain' = r.chain
          /\ mempool' = r.mempool
          /\ last' = Wrote(Call("handle_client", frame, r.written # <<>>), r.written)
    /\ UNCHANGED <<now, difficulty, threadVars, peers>>

NextNet ==
    \/ MainStart
    \/ \E net \in NetOutcomes : MainConnect(net)
    \/ \E up \in SUBSET (1..Len(peers)) : MainBroadcastBlock(up)
    \/ \E up \in SUBSET (1..Len(peers)) : MainBroadcastTransaction(up)
    \/ MainCommandMine
    \/ \E up \in SUBSET (1..Len(peers)) : MainCommandTx(up)
    \/ \E frame \in NetFrames : NetHandleClient(frame)

SpecNet == InitNet /\ [][NextNet]_vars

----------------------------------------------------------------------------
(* The two guards of a node. The driver thread runs the commands of main   *)
(* and the calls it makes on the Node; Node.blockchain and Node.peers are  *)
(* each locked where the code locks them and dropped where the guard goes  *)
(* out of scope. The handler threads are those of Spec: handle_client is   *)
(* given the blockchain only.                                              *)

LocksMaxPeers == 1   \* entries of Node.peers

\* what the network can do to one call of connect_to_peer
LocksOutcomes ==
    {Outcome(FALSE, FALSE, NoBytes), Outcome(TRUE, FALSE, NoBytes),
     Outcome(TRUE, TRUE, NoBytes)}
    \cup {Outcome(TRUE, TRUE, sync_response(<<chain[1], Good(chain, now)>>))}

\* messages an inbound connection can carry
LocksMessages ==
    {[type |-> "SYNC_REQUEST"],
     [type |-> "NEW_BLOCK", block |-> Good(chain, now)],
     [type |-> "NEW_TRANSACTION", transaction |-> TxAB]}

\* main, "info": node.get_node_info() starts with self.blockchain.lock()
LocksCallInfo ==
    /\ dpc = "idle"
    /\ dpc' = "lock"
    /\ dloc' = [op |-> "get_node_info", arg |-> <<>>]
    /\ UNCHANGED <<now, chain, mempool, difficulty, last, bcLock, hpc, hmsg, peers, peersLock>>

\* main after the connection attempts: node.blockchain.lock() in the
\* condition of the if let around node.broadcast_block(&last_block)
LocksCallBroadcast ==
    /\ dpc = "idle"
    /\ dpc' = "lock"
    /\ dloc' = [op |-> "broadcast_block", arg |-> <<>>]
    /\ UNCHANGED <<now, chain, mempool, difficulty, last, bcLock, hpc, hmsg, peers, peersLock>>

\* Node::connect_to_peer up to self.peers.lock(): TcpStream::connect
LocksCallConnect(net) ==
    /\ dpc = "idle"
    /\ Len(peers) < LocksMaxPeers
    /\ LET merges == net.write /\ ReadOk(net.reply) /\ IsJson(net.reply)
           data == IF merges THEN net.reply
                   ELSE [type |-> "none", chain |-> <<>>]
       IN /\ Len(chain) + PendingBlocks + CanAppend(chain, data.chain)
                <= NodeMaxChain
          /\ IF net.connect
             THEN /\ dpc' = "lock_peers"
                  /\ dloc' = [op |-> "connect_to_peer", arg |-> data,
                              merges |-> merges]
                  /\ UNCHANGED last
             ELSE /\ last' = Call("connect_to_peer", net, FALSE)
                  /\ UNCHANGED <<dpc, dloc>>
    /\ UNCHANGED <<now, chain, mempool, difficulty, bcLock, hpc, hmsg, peers, peersLock>>

\* the driver is at a self.peers.lock(): in connect_to_peer and
\* broadcast_to_peers, and in get_node_info and under the if let of main
\* once the blockchain guard is taken
DriverWantsPeers == dpc \in {"lock_peers", "get_node_info", "broadcast_block"}

\* self.peers.lock().unwrap()
DriverLockPeers ==
    /\ DriverWantsPeers
    /\ LockFree(peersLock)
    /\ peersLock' = peersLock \cup {Driver}
    /\ dpc' = "peers"
    /\ UNCHANGED <<now, chain, mempool, difficulty, last, bcLock, dloc, hpc, hmsg, peers>>

\* connect_to_peer: .push(peer_addr.to_string()), the guard is dropped at
\* the end of the statement; then the request, the reply, and
\* handle_sync_response, which starts with self.blockchain.lock()
LocksPush ==
    /\ dpc = "peers" /\ dloc.op = "connect_to_peer"
    /\ peers' = Append(peers, PeerAddr)
    /\ peersLock' = peersLock \ {Driver}
    /\ IF dloc.merges
       THEN dpc' = "lock" /\ UNCHANGED <<dloc, last>>
       ELSE /\ dpc' = "idle"
            /\ dloc' = NoLocals
            /\ last' = Call("connect_to_peer", dloc.arg, FALSE)
    /\ UNCHANGED <<now, chain, mempool, difficulty, bcLock, hpc, hmsg>>

\* broadcast_to_peers: .clone(), the guard is dropped at the end of the
\* statement; the caller's blockchain guard, if it holds one, stays
LocksClone ==
    /\ dpc = "peers"
    /\ dloc.op \in {"add_transaction", "broadcast_block", "broadcast_transaction"}
    /\ peersLock' = peersLock \ {Driver}
    /\ dpc' = "send"
    /\ dloc' = [op |-> dloc.op, arg |-> dloc.arg, targets |-> peers]
    /\ UNCHANGED <<now, chain, mempool, difficulty, last, bcLock, hpc, hmsg, peers>>

LocksInfoReturn_KeepsGuard ==
    /\ dpc = "peers" /\ dloc.op = "get_node_info"
    /\ peersLock' = peersLock \ {Driver}
    /\ dpc' = "lock"
    /\ dloc' = [op |-> "chain_stats", arg |-> <<>>]
    /\ UNCHANGED <<now, chain, mempool, difficulty, last, bcLock, hpc, hmsg, peers>>

\* get_node_info: format!, both guards are dropped at the return; main goes
\* on to node.blockchain.lock() for bc.chain_stats()
LocksInfoReturn ==
    /\ dpc = "peers" /\ dloc.op = "get_node_info"
    /\ peersLock' = peersLock \ {Driver}
    /\ bcLock' = bcLock \ {Driver}
    /\ dpc' = "lock"
    /\ dloc' = [op |-> "chain_stats", arg |-> <<>>]
    /\ UNCHANGED <<now, chain, mempool, difficulty, last, hpc, hmsg, peers>>

\* main, "info": bc.chain_stats() is printed, then the guard is dropped
LocksChainStats ==
    /\ dpc = "chain_stats"
    /\ bcLock' = bcLock \ {Driver}
    /\ dpc' = "idle"
    /\ dloc' = NoLocals
    /\ UNCHANGED <<now, chain, mempool, difficulty, last, hpc, hmsg, peers, peersLock>>

\* main, "tx": bc.add_transaction(tx.clone()) under the guard; if it was
\* accepted node.broadcast_transaction(&tx) follows with the guard held
LocksTxAdd ==
    /\ dpc = "add_transaction"
    /\ LET r == MemPool_add_transaction(mempool, dloc.arg)
       IN /\ mempool' = r.pool
          /\ IF r.ret
             THEN /\ dpc' = "lock_peers"
                  /\ UNCHANGED <<last, bcLock, dloc>>
             ELSE /\ last' = Call("add_transaction", dloc.arg, FALSE)
                  /\ bcLock' = bcLock \ {Driver}
                  /\ dpc' = "idle"
                  /\ dloc' = NoLocals
    /\ UNCHANGED <<now, chain, difficulty, hpc, hmsg, peers, peersLock>>

\* the message of the broadcast the driver is in
LocksMessage ==
    IF dloc.op = "broadcast_block"
    THEN [type |-> "NEW_BLOCK", block |-> chain[Len(chain)]]
    ELSE IF dloc.op = "broadcast_transaction"
    THEN [type |-> "NEW_TRANSACTION", transaction |-> TxStart]
    ELSE [type |-> "NEW_TRANSACTION", transaction |-> dloc.arg]

\* broadcast_to_peers from peers.is_empty() on, and the return to main: the
\* guard of "tx" and the one of the if let are dropped, and after
\* broadcast_block comes node.broadcast_transaction(&tx)
LocksSend(up) ==
    /\ dpc = "send"
    /\ LET b == broadcast_to_peers(dloc.targets, LocksMessage, up)
       IN last' = Wrote(Call(dloc.op, LocksMessage, TRUE), b.written)
    /\ IF dloc.op = "broadcast_block"
       THEN /\ dpc' = "lock_peers"
            /\ dloc' = [op |-> "broadcast_transaction", arg |-> <<>>]
       ELSE /\ dpc' = "idle"
            /\ dloc' = NoLocals
    /\ bcLock' = bcLock \ {Driver}
    /\ UNCHANGED <<now, chain, mempool, difficulty, hpc, hmsg, peers, peersLock>>

NextLocks ==
    \/ \E tx \in ThreadTxs : DriverCallAddTransaction(tx)
    \/ DriverCallMineBlock
    \/ LocksCallInfo
    \/ LocksCallBroadcast
    \/ \E net \in LocksOutcomes : LocksCallConnect(net)
    \/ DriverLock
    \/ DriverLockPeers
    \/ DriverMineTake
    \/ DriverProofOfWork
    \/ DriverMinePush
    \/ DriverSync
    \/ LocksPush
    \/ LocksClone
    \/ LocksInfoReturn
    \/ LocksChainStats
    \/ LocksTxAdd
    \/ \E up \in SUBSET (1..Len(peers)) : LocksSend(up)
    \/ \E h \in Handlers, data \in LocksMessages : HandlerRead(h, data)
    \/ \E h \in Handlers : HandlerLock(h)
    \/ \E h \in Handlers : HandlerSyncRequest(h)
    \/ \E h \in Handlers : HandlerNewBlock(h)
    \/ \E h \in Handlers : HandlerNewTransaction(h)

\* an operation under way goes on to its end (weak fairness of the steps that
\* take no guard), and a thread at a lock() that finds the guard free again
\* and again gets it (strong fairness of the steps that take one); nothing
\* makes the driver or a peer start an operation
SpecLocks ==
    /\ InitApi /\ [][NextLocks]_vars
    /\ WF_vars(DriverMineTake \/ DriverProofOfWork \/ DriverMinePush
               \/ DriverSync \/ LocksPush \/ LocksClone \/ LocksInfoReturn
               \/ LocksChainStats \/ LocksTxAdd
               \/ \E up \in SUBSET (1..Len(peers)) : LocksSend(up))
    /\ \A h \in Handlers :
          WF_vars(HandlerSyncRequest(h) \/ HandlerNewBlock(h)
                  \/ HandlerNewTransaction(h))
    /\ SF_vars(DriverLock)
    /\ SF_vars(DriverLockPeers)
    /\ \A h \in Handlers : SF_vars(HandlerLock(h))

----------------------------------------------------------------------------
(* Balances. Blockchain::get_balance is called by main and is not part of  *)
(* block.rs as given; it is taken from the description: every block and    *)
(* every transaction in chain order, the amount subtracted when from is    *)
(* the address and added when to is the address.                           *)

\* the transactions of the chain, in chain order
RECURSIVE ChainTransactions(_)
ChainTransactions(c) ==
    IF c = <<>> THEN <<>>
    ELSE c[1].transactions \o ChainTransactions(Tail(c))

\* the running total over the transactions i.. of txs
RECURSIVE BalanceLoop(_, _, _, _)
BalanceLoop(txs, address, i, balance) ==
    IF i > Len(txs) THEN balance
    ELSE LET tx == txs[i]
             debited == IF tx.from = address
                        THEN F64Sub(balance, tx.amount) ELSE balance
             credited == IF tx.to = address
                         THEN F64Add(debited, tx.amount) ELSE debited
         IN BalanceLoop(txs, address, i + 1, credited)

RECURSIVE BalanceLoop_CreditOnly(_, _, _, _)
BalanceLoop_CreditOnly(txs, address, i, balance) ==
    IF i > Len(txs) THEN balance
    ELSE LET tx == txs[i]
             credited == IF tx.to = address
                         THEN F64Add(balance, tx.amount) ELSE balance
         IN BalanceLoop_CreditOnly(txs, address, i + 1, credited)

get_balance_CreditOnly(c, address) ==
    BalanceLoop_CreditOnly(ChainTransactions(c), address, 1, F64(0))

\* Blockchain::get_balance(address)
get_balance(c, address) == BalanceLoop(ChainTransactions(c), address, 1, F64(0))

LedgerMaxTx == 4   \* transactions accepted by the ledger

\* transfers between three addresses: small amounts, an amount at the end
\* of the exact range and amounts as large as f64 holds
TxCA == Transaction("C", "A", F64(3), "sig", "key")
TxABExact == Transaction("A", "B", F64(F64Exact), "sig", "key")
TxABMax == Transaction("A", "B", F64(F64Max), "sig", "key")
TxACMax == Transaction("A", "C", F64(F64Max), "sig", "key")
LedgerTxs == {TxAB, TxBC, TxCA, TxABExact, TxABMax, TxACMax}

\* bc.add_transaction(tx)
LedgerAddTransaction(tx) ==
    /\ ChainTxCount(chain) + Len(mempool) < LedgerMaxTx
    /\ LET r == MemPool_add_transaction(mempool, tx)
       IN /\ mempool' = r.pool
          /\ last' = Call("add_transaction", tx, r.ret)
    /\ UNCHANGED <<now, chain, difficulty, threadVars, peers>>

\* bc.mine_block()
LedgerMineBlock ==
    /\ LET r == mine_block(chain, mempool, now)
       IN /\ chain' = r.chain
          /\ mempool' = r.mempool
          /\ last' = Call("mine_block", <<>>, r.ret)
    /\ UNCHANGED <<now, difficulty, threadVars, peers>>

NextLedger ==
    \/ \E tx \in LedgerTxs : LedgerAddTransaction(tx)
    \/ LedgerMineBlock

SpecLedger == InitApi /\ [][NextLedger]_vars

----------------------------------------------------------------------------
(* A caller of the library crate: lib.rs exports Blockchain and MemPool,
   whose fields are public, so the caller can also write the pool directly *)

LibMaxChain == 3   \* blocks in the chain of the caller
LibMaxPool == 3    \* transactions in the pool of the caller

LibTxs == {TxAB, TxBC, TxZero}

\* bc.add_transaction(tx)
LibAddTransaction(tx) ==
    /\ Len(mempool) < LibMaxPool
    /\ LET r == MemPool_add_transaction(mempool, tx)
       IN /\ mempool' = r.pool
          /\ last' = Call("add_transaction", tx, r.ret)
    /\ UNCHANGED <<now, chain, difficulty, threadVars, peers>>

\* bc.mempool.transactions.push(tx): the field is pub, nothing is checked
LibPushTransaction(tx) ==
    /\ Len(mempool) < LibMaxPool
    /\ mempool' = Append(mempool, tx)
    /\ last' = Call("transactions.push", tx, TRUE)
    /\ UNCHANGED <<now, chain, difficulty, threadVars, peers>>

\* bc.mine_block()
LibMineBlock ==
    /\ (Len(chain) < LibMaxChain \/ mempool = <<>>
          \/ ~mine_block(chain, mempool, now).ret)
    /\ LET r == mine_block(chain, mempool, now)
       IN /\ chain' = r.chain
          /\ mempool' = r.mempool
          /\ last' = Call("mine_block", <<>>, r.ret)
    /\ UNCHANGED <<now, difficulty, threadVars, peers>>

NextLib ==
    \/ \E tx \in LibTxs : LibAddTransaction(tx)
    \/ \E tx \in LibTxs : LibPushTransaction(tx)
    \/ LibMineBlock

SpecLib == InitApi /\ [][NextLib]_vars

----------------------------------------------------------------------------
(* Mining while the clock runs: the difficulty field over a longer chain *)

MineMaxChain == 4   \* blocks in the chain of the miner
MineMaxPool == 1    \* transactions waiting for the miner

MineTxs == {TxAB, TxBC}

\* bc.add_transaction(tx)
MineAddTransaction(tx) ==
    /\ Len(mempool) < MineMaxPool
    /\ LET r == MemPool_add_transaction(mempool, tx)
       IN /\ mempool' = r.pool
          /\ last' = Call("add_transaction", tx, r.ret)
    /\ UNCHANGED <<now, chain, difficulty, threadVars, peers>>

\* bc.mine_block(): no statement of it assigns self.difficulty
MineMineBlock ==
    /\ (Len(chain) < MineMaxChain \/ mempool = <<>>)
    /\ LET r == mine_block(chain, mempool, now)
       IN /\ chain' = r.chain
          /\ mempool' = r.mempool
          /\ last' = Call("mine_block", <<>>, r.ret)
    /\ UNCHANGED <<now, difficulty, threadVars, peers>>

NextMine ==
    \/ Tick
    \/ \E tx \in MineTxs : MineAddTransaction(tx)
    \/ MineMineBlock

SpecMine == InitApi /\ [][NextMine]_vars

----------------------------------------------------------------------------
(* Sustained load: one transaction is accepted first, and from then on
   mine_block is called only when MINE_COUNT or more newer transactions
   lie above it in the pool *)

StarveMaxChain == 4   \* blocks in the chain under load
StarveMaxPool == 12   \* transactions in the pool under load

Victim == TxAB   \* the transaction accepted first
Newer == TxBC    \* the transactions accepted after it

\* bc.add_transaction(Victim) on the fresh blockchain
StarveAccept ==
    /\ last = NoCall
    /\ LET r == MemPool_add_transaction(mempool, Victim)
       IN /\ mempool' = r.pool
          /\ last' = Call("add_transaction", Victim, r.ret)
    /\ UNCHANGED <<now, chain, difficulty, threadVars, peers>>

\* bc.add_transaction(Newer)
StarveLoad ==
    /\ last # NoCall
    /\ Len(chain) < StarveMaxChain
    /\ Len(mempool) < StarveMaxPool
    /\ LET r == MemPool_add_transaction(mempool, Newer)
       IN /\ mempool' = r.pool
          /\ last' = Call("add_transaction", Newer, r.ret)
    /\ UNCHANGED <<now, chain, difficulty, threadVars, peers>>

\* the load has arrived: MINE_COUNT or more transactions lie above Victim
StarveCanMine ==
    /\ Len(chain) < StarveMaxChain
    /\ Len(mempool) >= MINE_COUNT + 1

\* bc.mine_block(), called once the load has arrived
StarveMineBlock ==
    /\ StarveCanMine
    /\ LET r == mine_block(chain, mempool, now)
       IN /\ chain' = r.chain
          /\ mempool' = r.mempool
          /\ last' = Call("mine_block", <<>>, r.ret)
    /\ UNCHANGED <<now, difficulty, threadVars, peers>>

NextStarve ==
    \/ Tick
    \/ StarveAccept
    \/ StarveLoad
    \/ StarveMineBlock

\* the callers keep calling: a call that stays possible is made (weak
\* fairness of each call; StarveMineBlock is enabled exactly when
\* StarveCanMine holds, and its fairness is written with that condition)
SpecStarve ==
    /\ InitApi /\ [][NextStarve]_vars
    /\ WF_vars(StarveAccept) /\ WF_vars(StarveLoad)
    /\ (<>[]StarveCanMine => []<><<StarveMineBlock>>_vars)

----------------------------------------------------------------------------
(* Claims about the chain of a running node *)

\* C1: in every state of the node the chain is non-empty, chain[0] is the
\* genesis block made at construction and every later block is valid against
\* the block before it, so that is_chain_valid() is true.
C1_ChainAlwaysValid ==
    /\ Len(chain) >= 1
    /\ chain[1] = Blockchain_new(0).chain[1]
    /\ \A i \in 2..Len(chain) : Block_is_valid(chain[i], chain[i - 1])
    /\ is_chain_valid(chain)

\* a NEW_BLOCK message gave the chain its third block
C1_Witness ==
    /\ last.op = "NEW_BLOCK"
    /\ last.ret = TRUE
    /\ Len(chain) = 3

\* C2: the chain is append-only: no step shrinks or reorders it or changes a
\* block it holds, and chain[0] stays the genesis block made at construction.
C2_AppendOnly ==
    [][/\ Len(chain') >= Len(chain)
       /\ SubSeq(chain', 1, Len(chain)) = chain
       /\ chain'[1] = Blockchain_new(0).chain[1]]_vars

\* a sync-merge appended to a chain
C2_Witness ==
    /\ last.op = "SYNC_RESPONSE"
    /\ Len(last.chain) >= 1
    /\ Len(chain) > Len(last.chain)
    /\ SubSeq(chain, 1, Len(last.chain)) = last.chain

\* where a thread is inside the guard
DriverInside == dpc \in {"add_transaction", "mine_block", "proof_of_work",
                         "push", "connect_to_peer"}
HandlerInside(h) == hpc[h] \in {"SYNC_REQUEST", "NEW_BLOCK", "NEW_TRANSACTION"}

\* C3: the operations on the blockchain exclude each other, and mine_block
\* holds the guard from reading the tail and draining the mempool through
\* the proof-of-work search to the append: meanwhile no other thread is
\* inside the guard, the tail is the one the candidate was built on and the
\* mempool is as the drain left it; a mine_block that appended no block had
\* no transaction to remove.
C3_MiningHoldsGuard ==
    /\ Cardinality(bcLock) <= 1
    /\ DriverInside <=> Driver \in bcLock
    /\ \A h \in Handlers : HandlerInside(h) <=> h \in bcLock
    /\ dpc \in {"proof_of_work", "push"} =>
           /\ bcLock = {Driver}
           /\ \A h \in Handlers : ~HandlerInside(h)
           /\ Len(chain) = dloc.new_index
           /\ chain[Len(chain)] = dloc.prev_block
           /\ mempool = SubSeq(dloc.pool0, 1,
                               Len(dloc.pool0) - Len(dloc.transactions))
    /\ (last.op = "mine_block" /\ ~last.ret) => last.mempool = <<>>

\* the search is under way while a block and a transaction wait for the guard
C3_Witness ==
    /\ dpc = "proof_of_work"
    /\ dloc.nonce >= 1
    /\ \E h \in Handlers : hpc[h] = "lock" /\ hmsg[h].type = "NEW_BLOCK"
    /\ \E h \in Handlers : hpc[h] = "lock" /\ hmsg[h].type = "NEW_TRANSACTION"

----------------------------------------------------------------------------
(* Claims about mine_block *)

\* C7: mine_block() called with an empty mempool returns false and leaves
\* chain, mempool and difficulty as they were.
C7_MineEmptyChangesNothing ==
    (last.op = "mine_block" /\ last.mempool = <<>>) =>
        /\ last.ret = FALSE
        /\ chain = last.chain
        /\ Len(chain) = Len(last.chain)
        /\ mempool = last.mempool
        /\ difficulty = last.difficulty

C7_Witness ==
    /\ last.op = "mine_block"
    /\ last.mempool = <<>>
    /\ Len(chain) = 2

Min(a, b) == IF a < b THEN a ELSE b

----------------------------------------------------------------------------
(* Claims about the sync-merge *)

AllParse(incoming) == \A i \in 1..Len(incoming) : ParsesAsBlock(incoming[i])

\* every block of the sequence is valid against the one before it
ValidChain(incoming) ==
    /\ AllParse(incoming)
    /\ \A i \in 2..Len(incoming) : Block_is_valid(incoming[i], incoming[i - 1])

\* the two chains hold blocks of different hash at some position of both
Diverged(c, incoming) ==
    \E i \in 1..Min(Len(c), Len(incoming)) : c[i].hash # incoming[i].hash

\* the chain after each incoming block in turn was appended iff valid
\* against the tail the chain had then
MergedInOrder(c, incoming) ==
    LET acc[i \in 1..Len(incoming)] ==
            IF i = 1 THEN c
            ELSE IF Block_is_valid(incoming[i], acc[i - 1][Len(acc[i - 1])])
                 THEN Append(acc[i - 1], incoming[i])
                 ELSE acc[i - 1]
    IN acc[Len(incoming)]

SyncOfBlocks ==
    /\ last.op = "SYNC_RESPONSE"
    /\ Len(last.arg.chain) >= 1
    /\ AllParse(last.arg.chain)

\* C4: in a sync-merge whose first incoming block has the hash of the local
\* genesis, each later incoming block, in order, is appended iff it is valid
\* against the local tail of that moment and is dropped without other effect
\* if not; a valid incoming chain the local chain has diverged from, or is at
\* least as long as, appends nothing.
C4_MergeAgainstLocalTail ==
    (SyncOfBlocks /\ last.arg.chain[1].hash = last.chain[1].hash) =>
        LET incoming == last.arg.chain
        IN /\ chain = MergedInOrder(last.chain, incoming)
           /\ mempool = last.mempool
           /\ difficulty = last.difficulty
           /\ (/\ ValidChain(incoming)
               /\ (Diverged(last.chain, incoming) \/ Len(last.chain) >= Len(incoming)))
              => chain = last.chain

\* a merge that dropped a block and then appended one
C4_Witness ==
    /\ SyncOfBlocks
    /\ last.arg.chain[1].hash = last.chain[1].hash
    /\ Len(last.arg.chain) = 3
    /\ ~Block_is_valid(last.arg.chain[2], last.chain[Len(last.chain)])
    /\ chain = Append(last.chain, last.arg.chain[3])

\* a merge of a valid chain the local chain had diverged from
C4_WitnessDiverged ==
    /\ SyncOfBlocks
    /\ last.arg.chain[1].hash = last.chain[1].hash
    /\ ValidChain(last.arg.chain)
    /\ Diverged(last.chain, last.arg.chain)
    /\ Len(last.chain) < Len(last.arg.chain)
    /\ chain = last.chain

\* C5: when the first incoming block has a hash other than that of the local
\* genesis the merge is aborted: chain, chain length and mempool stay as they
\* were.
C5_GenesisMismatchAborts ==
    (SyncOfBlocks /\ last.arg.chain[1].hash # last.chain[1].hash) =>
        /\ chain = last.chain
        /\ Len(chain) = Len(last.chain)
        /\ mempool = last.mempool

\* an aborted merge that carried a block valid against the local tail
C5_Witness ==
    /\ SyncOfBlocks
    /\ last.arg.chain[1].hash # last.chain[1].hash
    /\ \E i \in 2..Len(last.arg.chain) :
           Block_is_valid(last.arg.chain[i], last.chain[Len(last.chain)])
    /\ chain = last.chain

\* C6 as stated: a sync-merge of the snapshot just merged appends no block,
\* whatever the snapshot.
C6_MergeTwiceAnySequence ==
    (last.op = "SYNC_RESPONSE" /\ last.again) => chain = last.chain

\* C6 amended: a sync-merge of the snapshot just merged appends no block when
\* the snapshot is a valid chain (each block valid against the one before it).
C6_MergeTwiceValidChain ==
    (last.op = "SYNC_RESPONSE" /\ last.again /\ ValidChain(last.arg.chain)) =>
        chain = last.chain

\* the second merge of a valid chain whose first merge appended blocks
C6_Witness ==
    /\ last.op = "SYNC_RESPONSE"
    /\ last.again
    /\ ValidChain(last.arg.chain)
    /\ Len(last.chain) > Len(last.chain0)
    /\ chain = last.chain

----------------------------------------------------------------------------
(* Claims about validation *)

\* C9: add_transaction(tx) returns true and appends tx to the end of the
\* mempool iff amount > 0, from and to are non-empty and different, and
\* signature and public_key are non-empty; otherwise it returns false and
\* the mempool is unchanged; a transaction already in the pool is accepted
\* again.
C9_AddTransactionIffValid ==
    last.op = "add_transaction" =>
        LET tx == last.arg
            ok == /\ F64Gt(tx.amount, F64(0))
                  /\ tx.from # "" /\ tx.to # "" /\ tx.from # tx.to
                  /\ tx.signature # "" /\ tx.public_key # ""
        IN /\ last.ret = ok
           /\ mempool = IF ok THEN Append(last.mempool, tx) ELSE last.mempool

\* the five conditions of the claim, last to first
FiveConditions(b, prev) ==
    /\ b.hash.d = 0
    /\ compute_hash(b.index, b.timestamp, b.transactions, b.prev_hash, b.nonce) = b.hash
    /\ \A i \in 1..Len(b.transactions) : Transaction_is_valid(b.transactions[i])
    /\ b.prev_hash = prev.hash
    /\ b.index = prev.index + 1

\* blocks to validate and blocks to validate against
ValidationInputs ==
    Forged(chain, now) \cup {chain[i] : i \in 1..Len(chain)}
    \cup UNION {{c[i] : i \in 1..Len(c)} : c \in SameGenesisChains}

\* C10: b.is_valid(prev) is true iff index, prev_hash, transactions,
\* recomputed hash and leading zeros are all right, for all b and prev, in
\* whichever order the conditions are taken.
C10_BlockValidIffFiveConditions ==
    /\ \A b \in ValidationInputs, prev \in ValidationInputs :
           Block_is_valid(b, prev) = FiveConditions(b, prev)
    /\ (last.op = "NEW_BLOCK" /\ ParsesAsBlock(last.arg.block)) =>
           last.ret = FiveConditions(last.arg.block, last.chain[Len(last.chain)])

\* a block refused for its missing proof of work alone
C10_Witness ==
    /\ last.op = "NEW_BLOCK"
    /\ ParsesAsBlock(last.arg.block)
    /\ last.ret = FALSE
    /\ LET b == last.arg.block
           prev == last.chain[Len(last.chain)]
       IN /\ b.index = prev.index + 1
          /\ b.prev_hash = prev.hash
          /\ \A i \in 1..Len(b.transactions) : Transaction_is_valid(b.transactions[i])
          /\ compute_hash(b.index, b.timestamp, b.transactions, b.prev_hash, b.nonce) = b.hash
          /\ b.hash.d # 0

----------------------------------------------------------------------------
(* Claims about inbound connections *)

\* C11: the handler of a NEW_BLOCK message, once it holds the guard, appends
\* the block iff it is valid against the tail the chain has then and leaves
\* the mempool alone; the handler of a NEW_TRANSACTION message appends the
\* transaction to the mempool iff it passes validation and leaves the chain
\* alone; a block that does not parse changes nothing.
C11_InboundDispatch ==
    [][/\ \A h \in Handlers :
            (hpc[h] = "NEW_BLOCK" /\ hpc'[h] = "idle") =>
                LET block == hmsg[h].block
                    ok == Block_is_valid(block, chain[Len(chain)])
                IN /\ chain' = IF ok THEN Append(chain, block) ELSE chain
                   /\ mempool' = mempool
       /\ \A h \in Handlers :
            (hpc[h] = "NEW_TRANSACTION" /\ hpc'[h] = "idle") =>
                LET tx == hmsg[h].transaction
                    ok == Transaction_is_valid(tx)
                IN /\ mempool' = IF ok THEN Append(mempool, tx) ELSE mempool
                   /\ chain' = chain
       /\ (/\ UNCHANGED <<now, dpc, dloc, hpc>>
           /\ last'.op = "NEW_BLOCK"
           /\ ~ParsesAsBlock(last'.arg.block)) =>
                chain' = chain /\ mempool' = mempool]_vars

\* a block that was valid against the tail when it was read and is dropped
\* because the chain had grown by the time the handler held the guard
C11_Witness ==
    /\ last.op = "NEW_BLOCK"
    /\ ParsesAsBlock(last.arg.block)
    /\ ~last.ret
    /\ chain = last.chain
    /\ Len(chain) >= 2
    /\ Block_is_valid(last.arg.block, chain[Len(chain) - 1])

\* frames handle_client has no arm for: no JSON, no type, another type
NoArm(frame) ==
    \/ ~IsJson(frame)
    \/ msg_type(frame) \notin {"SYNC_REQUEST", "NEW_BLOCK", "NEW_TRANSACTION"}

\* C12: an inbound connection whose frame is no JSON, has no type or has a
\* type other than SYNC_REQUEST, NEW_BLOCK and NEW_TRANSACTION changes
\* neither chain, mempool nor peers, and nothing is written back.
C12_UnknownFrameNoEffect ==
    (last.op = "handle_client" /\ NoArm(last.arg)) =>
        /\ chain = last.chain
        /\ mempool = last.mempool
        /\ peers = last.peers
        /\ last.written = <<>>

\* a frame of an unknown type that carries a block valid against the tail
\* and a valid transaction
C12_Witness ==
    /\ last.op = "handle_client"
    /\ IsJson(last.arg)
    /\ msg_type(last.arg) = "PING"
    /\ Block_is_valid(last.arg.block, chain[Len(chain)])
    /\ Transaction_is_valid(last.arg.transaction)
    /\ Len(chain) >= 2
    /\ peers # <<>>

\* C13: the handler of a SYNC_REQUEST writes back one frame, a SYNC_RESPONSE
\* whose chain is the whole chain as it is at that step, and leaves chain,
\* mempool and peers as they are.
C13_SyncRequestAnswer ==
    [][\A h \in Handlers :
          (hpc[h] = "SYNC_REQUEST" /\ hpc'[h] = "idle") =>
              /\ last'.op = "SYNC_REQUEST"
              /\ last'.written =
                    <<[to |-> "reply",
                       msg |-> [type |-> "SYNC_RESPONSE", chain |-> chain]]>>
              /\ UNCHANGED <<chain, mempool, peers>>]_vars

\* a reply with a chain of two blocks or more, written while another
\* connection waits for the guard with a block
C13_Witness ==
    /\ last.op = "SYNC_REQUEST"
    /\ Len(last.written) = 1
    /\ Len(last.written[1].msg.chain) >= 2
    /\ last.written[1].msg.chain = chain
    /\ \E h \in Handlers : hpc[h] = "lock" /\ hmsg[h].type = "NEW_BLOCK"

----------------------------------------------------------------------------
(* Claims about connect_to_peer and the broadcasts *)

\* the reply of a call of connect_to_peer was read, is JSON and has the
\* type SYNC_RESPONSE
GotSyncResponse(net) ==
    /\ net.connect /\ net.write
    /\ ReadOk(net.reply) /\ IsJson(net.reply)
    /\ msg_type(net.reply) = "SYNC_RESPONSE"

\* C14: connect_to_peer leaves the chain as it is unless the frame read from
\* the peer is JSON of type SYNC_RESPONSE.
C14_MergeOnlyOnSyncResponse ==
    (last.op = "connect_to_peer" /\ ~GotSyncResponse(last.arg)) =>
        chain = last.chain

\* how often x occurs in the sequence s
Count(x, s) == Cardinality({i \in 1..Len(s) : s[i] = x})

\* the addresses of a sequence of addresses or of frames written
Addresses(s) == {s[i] : i \in 1..Len(s)}
Receivers(s) == <<>> \o [i \in 1..Len(s) |-> s[i].to]

\* C15: one broadcast opens one connection for each address known, so no
\* peer gets the message twice, and changes neither chain, mempool nor
\* peers.
C15_OneConnectionPerPeer ==
    last.op \in {"broadcast_block", "broadcast_transaction"} =>
        /\ Addresses(last.ret) = Addresses(last.peers)
        /\ \A a \in Addresses(last.peers) :
              /\ Count(a, last.ret) = 1
              /\ Count(a, Receivers(last.written)) <= 1
        /\ chain = last.chain
        /\ mempool = last.mempool
        /\ peers = last.peers

\* C16: a "mine" command that appended a block and a "tx" command whose
\* transaction was accepted have sent it to every peer known: a connection
\* was opened for every entry of the peer list.
C16_CommandsBroadcast ==
    (last.op \in {"mine", "tx"} /\ last.ret.ok) =>
        /\ last.ret.connects = peers
        /\ \A i \in 1..Len(last.written) :
              last.written[i].msg =
                  IF last.op = "mine"
                  THEN [type |-> "NEW_BLOCK", block |-> chain[Len(chain)]]
                  ELSE [type |-> "NEW_TRANSACTION", transaction |-> last.arg]

\* C18 as stated: every call of connect_to_peer registers the address.
C18_RegistersOnEveryCall ==
    last.op = "connect_to_peer" => peers = Append(last.peers, PeerAddr)

\* C18 amended: a call of connect_to_peer registers the address iff the
\* connection was established, whatever becomes of the exchange; a call
\* whose connection fails returns false and changes nothing.
C18_RegistersOnceConnected ==
    last.op = "connect_to_peer" =>
        /\ peers = IF last.arg.connect
                   THEN Append(last.peers, PeerAddr)
                   ELSE last.peers
        /\ ~last.arg.connect => (~last.ret /\ chain = last.chain)
        /\ mempool = last.mempool

\* a call that returned false after the connection was established, on a
\* node that had the address already
C18_Witness ==
    /\ last.op = "connect_to_peer"
    /\ last.arg.connect
    /\ ~last.ret
    /\ Len(last.peers) >= 1
    /\ peers = Append(last.peers, PeerAddr)

----------------------------------------------------------------------------
(* Claims about balances *)

\* the addresses that occur as from or to in the transactions of the chain
ChainAddresses(c) ==
    LET txs == ChainTransactions(c)
    IN {txs[i].from : i \in 1..Len(txs)} \cup {txs[i].to : i \in 1..Len(txs)}

\* the f64 sum of get_balance over a set of addresses
RECURSIVE BalanceSum(_, _)
BalanceSum(c, addresses) ==
    IF addresses = {} THEN F64(0)
    ELSE LET a == CHOOSE x \in addresses : TRUE
         IN F64Add(get_balance(c, a), BalanceSum(c, addresses \ {a}))

\* the amounts of the chain are numbers and their total lies in the exact
\* range of f64: no sum computed from them is rounded or leaves the range
RECURSIVE AmountsTotal(_)
AmountsTotal(txs) ==
    IF txs = <<>> THEN 0 ELSE txs[1].amount.v + AmountsTotal(Tail(txs))
ExactAmounts(c) ==
    LET txs == ChainTransactions(c)
    IN /\ \A i \in 1..Len(txs) : ~txs[i].amount.nan
       /\ AmountsTotal(txs) <= F64Exact

adjustment_interval == 2
target_block_time == 2

\* the difficulty C20 expects after a block was appended to give chain c
AdjustedDifficulty(c, d) ==
    IF Len(c) % adjustment_interval # 0 \/ Len(c) <= adjustment_interval
    THEN d
    ELSE LET actual_time == c[Len(c)].timestamp
                            - c[Len(c) - adjustment_interval].timestamp
             target_time == target_block_time * adjustment_interval
         IN IF 0 < actual_time /\ actual_time < target_time THEN d + 1
            ELSE IF actual_time > target_time /\ d > 1 THEN d - 1
            ELSE d

\* C20 as stated: after a successful mine_block the difficulty is the
\* adjusted one: one more when the chain length is a positive multiple of
\* adjustment_interval and 0 < actual_time < target_time, one less when
\* actual_time > target_time and difficulty > 1, unchanged otherwise.
C20_DifficultyAdjusted ==
    (last.op = "mine_block" /\ last.ret)
        => difficulty = AdjustedDifficulty(chain, last.difficulty)

\* tx is held by a block of chain c
Included(tx, c) ==
    \E i \in 1..Len(c) : \E j \in 1..Len(c[i].transactions) :
        c[i].transactions[j] = tx

\* tx waits in pool
Waiting(tx, pool) == \E i \in 1..Len(pool) : pool[i] = tx

Occurrences(tx, list) == Cardinality({i \in 1..Len(list) : list[i] = tx})

\* every transaction of the two lists
Members(l1, l2) == {l1[i] : i \in 1..Len(l1)} \cup {l2[i] : i \in 1..Len(l2)}

\* C23: every block carries its position as index, so a mine_block called
\* with a non-empty mempool returns true and makes the chain one block
\* longer; the transactions that left the mempool are those of the appended
\* block, and no other operation takes a transaction out of the mempool.
C23_MineAlwaysSucceeds ==
    /\ \A i \in 1..Len(chain) : chain[i].index = i - 1
    /\ (last.op = "mine_block" /\ last.mempool # <<>>) =>
          /\ last.ret
          /\ Len(chain) = Len(last.chain) + 1
          /\ SubSeq(chain, 1, Len(last.chain)) = last.chain
          /\ chain[Len(chain)].index = Len(last.chain)
          /\ chain[Len(chain)].prev_hash = last.chain[Len(last.chain)].hash
          /\ Block_is_valid(chain[Len(chain)], last.chain[Len(last.chain)])
          /\ \A tx \in Members(last.mempool, chain[Len(chain)].transactions) :
                Occurrences(tx, last.mempool) =
                    Occurrences(tx, mempool)
                    + Occurrences(tx, chain[Len(chain)].transactions)
    /\ (last.op \notin {"mine_block", "none"}) =>
          /\ Len(mempool) >= Len(last.mempool)
          /\ SubSeq(mempool, 1, Len(last.mempool)) = last.mempool

\* mine_block appended the third block to a chain whose second block came
\* from a peer
C23_Witness ==
    /\ last.op = "mine_block" /\ last.mempool # <<>> /\ last.ret
    /\ Len(chain) = 3
    /\ chain[3].transactions = last.mempool
    /\ chain[2].transactions # <<TxAB>>

\* the local chain is the beginning of the incoming one
LocalIsPrefix(c, incoming) ==
    /\ Len(c) <= Len(incoming)
    /\ SubSeq(incoming, 1, Len(c)) = c

\* C24: a sync-merge of a valid incoming chain (every block valid against
\* the one before it) that begins with the local chain leaves the local
\* chain equal to the incoming one: the missing blocks were appended in
\* order and no block already held was appended again.
C24_PrefixSyncAdopts ==
    (/\ last.op = "SYNC_RESPONSE"
     /\ ValidChain(last.arg.chain)
     /\ LocalIsPrefix(last.chain, last.arg.chain)) =>
        /\ chain = last.arg.chain
        /\ SubSeq(chain, 1, Len(last.chain)) = last.chain
        /\ \A i \in (Len(last.chain) + 1)..Len(chain) : chain[i] = last.arg.chain[i]

\* a node holding two blocks merged a valid chain of three that begins
\* with them: the block it held was passed over and the third appended
C24_Witness ==
    /\ last.op = "SYNC_RESPONSE"
    /\ ValidChain(last.arg.chain)
    /\ LocalIsPrefix(last.chain, last.arg.chain)
    /\ Len(last.chain) = 2
    /\ Len(last.arg.chain) = 3
    /\ chain = last.arg.chain

====
